---------------------------- MODULE Spec2Model ----------------------------
(***************************************************************************)
(* Sector AI Agent SDK: the components of the supervisor and of a worker   *)
(* as state machines.                                                      *)
(*                                                                         *)
(* Spec / FairSpec       : RequestQueue (add, processQueue) with callers   *)
(*                         that add tasks at any time, also from inside a  *)
(*                         running task.                                   *)
(* ThreadSpec /          : buildConversationThread, one processThread      *)
(* FairThreadSpec          level per step, over a parent-reference graph   *)
(*                         that the platform reveals fetch by fetch.       *)
(* SupSpec               : the gRPC supervisor (server.ts) and its worker  *)
(*                         processes.                                      *)
(* LoopSpec              : the post, search and interaction loops.         *)
(* AccessSpec            : the platform calls of ClientBase and its        *)
(*                         clients, queued or direct.                      *)
(* PostSpec              : postTweet with processAndCacheTweet.            *)
(* MemSpec               : the memory writes of two thread builders        *)
(*                         running in one worker.                          *)
(* BackoffSpec           : the catch block of processQueue with            *)
(*                         exponentialBackoff.                             *)
(* IntervalSpec          : the interval each loop computes for its next    *)
(*                         iteration.                                      *)
(* ScanSpec              : the candidate loop of                           *)
(*                         handleTwitterInteractions.                      *)
(* PostStartSpec         : TwitterPostClient.start, its post loop and the  *)
(*                         posts it initiates.                             *)
(***************************************************************************)
EXTENDS Naturals, Sequences, FiniteSets

\* ------------------------------------------------------------------ bounds
\* Number of add() calls in one run of the queue.
MaxTasks == 4
\* Number of distinct tweet ids on the platform.
NumNodes == 5
\* Largest maxReplies argument tried.
MaxDepth == 5
\* Number of worker processes the supervisor spawns in one run.
MaxAgents == 2
\* Number of invocations of its work one scheduling loop starts in one run.
MaxRuns == 3
\* Number of platform operations the clients of one worker begin in one run.
MaxCalls == 3
\* Number of postTweet calls in one run.
MaxPosts == 3
\* Number of tweet ids the two thread builders walk over.
MemNodes == 2
\* Number of processThread calls of one builder.
MaxVisits == 2
\* Math.random() takes the values r / RandomGrain, r in 0..RandomGrain-1.
RandomGrain == 61
\* Largest tweet id; ids of one and of two digits are needed.
MaxTweetId == 11
\* Number of candidates of one run of handleTwitterInteractions.
MaxCandidates == 2
\* Number of runs of handleTwitterInteractions.
MaxScans == 2
\* Number of generateNewTweet calls of one post client.
MaxGens == 3
\* Largest configured intervalMin and intervalMax, in minutes.
MaxMinutes == 3
\* Number of failed attempts of one request.
MaxFailures == 8

\* undefined: no parent reference, no awaited task, no process id.
None == 0
Tasks == 1..MaxTasks
Pids == 1..MaxAgents
\* The process ids a request may name: the last one is never spawned.
PidArgs == 1..(MaxAgents + 1)
\* No RPC was handled in the step.
NoReq == [character |-> FALSE, twitter |-> FALSE, username |-> FALSE,
          token |-> FALSE, secret |-> FALSE]
NoReply == [op |-> "none", code |-> "none", pid |-> None, status |-> "none",
            req |-> NoReq]
Nodes == 1..NumNodes
\* The parent reference of a tweet the platform has not returned yet.
Unknown == NumNodes + 1

VARIABLES
    \* ---- RequestQueue (src/unnamed/part_002, lines 32-80)
    queue,        \* this.queue: the pending wrappers, by task id
    processing,   \* this.processing
    loops,        \* the active processQueue invocations: [pc, cur]
    added,        \* number of add() calls so far; task ids are 1..added
    awaiting,     \* awaiting[t]: the task that t's operation added and awaits
    promise,      \* promise[t]: state of the promise add() returned for t
    resolveCalls, \* resolveCalls[t]: calls of t's resolve
    rejectCalls,  \* rejectCalls[t]: calls of t's reject
    log,          \* observed events: a task's start, success or failure
    pace,         \* ms of the pacing delay completed since the last task
                  \* ended, 0 when none has
    \* ---- buildConversationThread (src/src/lib/client-twitter/utils.ts)
    tpc,          \* position of the builder
    tweet,        \* the tweet argument (the leaf): [id, parent]
    maxReplies,   \* the maxReplies argument
    currentTweet, \* processThread's currentTweet: [id, parent]
    depth,        \* processThread's depth
    thread,       \* the output sequence
    visited,      \* the visited set
    memories,     \* ids for which messageManager is known to hold a memory
    known,        \* tweets the platform has revealed so far: id -> parent
    calls,        \* number of recursive processThread calls
    fetches,      \* number of getTweet calls
    \* ---- supervisor (src/src/server.ts)
    agents,       \* the registry: process id -> status
    worker,       \* worker[p]: the worker process p, as the OS has it
    exitCode,     \* exitCode[p]: how worker p ended
    spawned,      \* number of spawn() calls; process ids are 1..spawned
    signals,      \* the kill calls made: [pid, group, by]
    sup,          \* the supervisor process: "up" or "down"
    reply,        \* what the RPC handled in the last step gave its callback
    \* ---- scheduling loops (post.ts, interactions.ts, utils.ts)
    lpc,          \* lpc[l]: position of loop l
    inflight,     \* inflight[l]: invocations of l's work in progress
    runs,         \* runs[l]: invocations of l's work started so far
    stopFlag,     \* TwitterPostClient.stopProcessingActions
    afterStop,    \* the loops that started work after the flag was set
    \* ---- platform access of one worker (part_002, post.ts, interactions.ts)
    pending,      \* requestQueue.queue: the tasks waiting, [id, api]
    current,      \* the task processQueue is awaiting, or NoTask
    flying,       \* platform calls in flight: [id, api, task]
    ncalls,       \* number of client operations begun
    parent,       \* parent[t]: the search task whose searchTweets added task t
    answered,     \* the search tasks whose search returned tweets
    delivered,    \* delivered[t]: what fetchSearchTweets returned for task t
    \* ---- postTweet (src/src/lib/client-twitter/post.ts)
    ppc,          \* ppc[n]: position of the n-th postTweet call
    nposts,       \* number of postTweet calls so far
    postedOk,     \* the posts whose platform call succeeded
    stamped,      \* the posts written to the lastPost cache entry
    remembered,   \* the posts for which createMemory was called
    \* ---- memory writes of the thread builders (utils.ts, interactions.ts)
    mpc,          \* mpc[b]: position of builder b in processThread
    mnode,        \* mnode[b]: the tweet builder b is at
    mvisits,      \* mvisits[b]: processThread calls of builder b so far
    store,        \* the tweet ids messageManager holds a memory for
    creates,      \* creates[n]: createMemory calls made for tweet n
    landing,      \* createMemory calls not yet written: [by, node]
    \* ---- the catch block of processQueue (part_002, lines 60-64)
    failures,     \* failed attempts of the request at the head so far
    waiting,      \* requests in this.queue behind it
    slept,        \* seconds the last exponentialBackoff call slept
    \* ---- the intervals of the scheduling loops
    interval,     \* the last interval computed: [loop, min, max, minutes]
    \* ---- handleTwitterInteractions (interactions.ts 57-245)
    lastChecked,  \* client.lastCheckedTweetId, None for null
    candidates,   \* uniqueTweetCandidates after the sort: tweet ids
    pos,          \* index of the candidate the for loop is at
    startLast,    \* lastCheckedTweetId when the run began
    order,        \* the tweets handled in this run, in order
    clean,        \* no call failed and no tweet had a response in this run
    scans,        \* number of runs begun
    spc,          \* position of the run
    \* ---- TwitterPostClient.start (post.ts 99-175)
    startpc,      \* position of start and of generateNewTweetLoop
    immediately,  \* twitterConfig.POST_IMMEDIATELY
    lastPost,     \* the cached lastPost record: "absent" or "present"
    gens,         \* number of generateNewTweet calls begun
    posts         \* posts[g]: the post that the g-th generateNewTweet initiated

qvars == <<queue, processing, loops, added, awaiting, promise,
           resolveCalls, rejectCalls, log, pace>>
tvars == <<tpc, tweet, maxReplies, currentTweet, depth, thread, visited, memories,
           known, calls, fetches>>
svars == <<agents, worker, exitCode, spawned, signals, sup, reply>>
lvars == <<lpc, inflight, runs, stopFlag, afterStop>>
pvars == <<pending, current, flying, ncalls, parent, answered, delivered>>
wvars == <<ppc, nposts, postedOk, stamped, remembered>>
mvars == <<mpc, mnode, mvisits, store, creates, landing>>
bvars == <<failures, waiting, slept>>
ivars == <<interval>>
cvars == <<lastChecked, candidates, pos, startLast, order, clean, scans, spc>>
dvars == <<startpc, immediately, lastPost, gens, posts>>
vars == <<qvars, tvars, svars, lvars, pvars, wvars, mvars, bvars, ivars, cvars, dvars>>

\* ------------------------------------------------------------ RequestQueue

\* The loop invocations that are awaiting a request, and the tasks they run.
ExecLoops == {l \in loops : l.pc = "exec"}
Executing == {l.cur : l \in ExecLoops}

\* A running operation that awaits the promise of a task it added itself.
Blocked(t) == awaiting[t] # None /\ promise[awaiting[t]] = "pending"

PushFront(q, t) == <<t>> \o q
\* add, line 38: this.queue.push(wrapper).
Enqueue(q, t) == Append(q, t)

GuardIgnoresFlag(proc, q) == Len(q) > 0
\* processQueue, lines 51-53: the early return, negated.
GuardPasses(proc, q) == ~proc /\ Len(q) > 0

LoopEndsAfterOne(q) == FALSE
\* processQueue, line 56: the test of the while loop.
LoopContinues(q) == Len(q) > 0

\* The values of Math.random(), as numerators over RandomGrain.
Randoms == 0..(RandomGrain - 1)

DelayFromZero(r) == (r * 2000) \div RandomGrain
\* randomDelay, lines 76-79: Math.floor(Math.random() * 2000) + 1500 ms.
RandomDelay(r) == (r * 2000) \div RandomGrain + 1500

RethrowOnFailure(outcome) == outcome = "fail"
\* add, lines 39-44: the wrapper's try/catch settles the promise and swallows
\* the error, so the wrapper's own promise never rejects.
WrapperThrows(outcome) == FALSE

\* processQueue, line 57 and the synchronous start of the request at line 59.
StartNext(l, q) ==
    /\ queue' = Tail(q)
    /\ loops' = (loops \ {l}) \cup {[pc |-> "exec", cur |-> Head(q)]}
    /\ log' = Append(log, [task |-> Head(q), ev |-> "start"])

\* add (lines 36-48) followed by its call of processQueue (lines 50-59), for a
\* queue already holding the new wrapper.
AddTail(q) ==
    IF GuardPasses(processing, q)
    THEN /\ processing' = TRUE
         /\ StartNext([pc |-> "new", cur |-> None], q)
    ELSE /\ queue' = q
         /\ UNCHANGED <<processing, loops, log>>

\* add() called by a loop of the worker, outside any running task.
Add ==
    /\ added < MaxTasks
    /\ added' = added + 1
    /\ promise' = [promise EXCEPT ![added + 1] = "pending"]
    /\ AddTail(Enqueue(queue, added + 1))
    /\ UNCHANGED <<awaiting, resolveCalls, rejectCalls, pace>>

\* add() called from inside the running operation of task t, which then awaits
\* the new task (getTweet wrapped in requestQueue.add, utils.ts lines 556-558).
NestedAdd(t) ==
    /\ t \in Executing
    /\ ~Blocked(t)
    /\ added < MaxTasks
    /\ added' = added + 1
    /\ promise' = [promise EXCEPT ![added + 1] = "pending"]
    /\ awaiting' = [awaiting EXCEPT ![t] = added + 1]
    /\ AddTail(Enqueue(queue, added + 1))
    /\ UNCHANGED <<resolveCalls, rejectCalls, pace>>

\* The request awaited at line 59 finishes: the operation returned or threw,
\* the wrapper called resolve or reject (lines 40-44), and processQueue goes on
\* to its catch block (lines 60-64) or to randomDelay (line 65).
TaskCompletes(l, outcome) ==
    /\ l \in ExecLoops
    /\ ~Blocked(l.cur)
    /\ log' = Append(log, [task |-> l.cur, ev |-> outcome])
    /\ resolveCalls' = [resolveCalls EXCEPT
                          ![l.cur] = @ + (IF outcome = "ok" THEN 1 ELSE 0)]
    /\ rejectCalls' = [rejectCalls EXCEPT
                          ![l.cur] = @ + (IF outcome = "fail" THEN 1 ELSE 0)]
    /\ promise' = [promise EXCEPT
                     ![l.cur] = IF @ # "pending" THEN @
                                ELSE IF outcome = "ok" THEN "resolved"
                                ELSE "rejected"]
    /\ IF WrapperThrows(outcome)
       THEN /\ queue' = <<l.cur>> \o queue
            /\ loops' = (loops \ {l}) \cup {[l EXCEPT !.pc = "backoff"]}
       ELSE /\ queue' = queue
            /\ loops' = (loops \ {l}) \cup {[l EXCEPT !.pc = "delay"]}
    /\ pace' = 0
    /\ UNCHANGED <<processing, added, awaiting>>

\* A timer of the loop fires: the backoff of line 63 (then on to line 65), or
\* the pacing delay of line 65 (then the loop test of line 56, and line 68).
TimerFires(l) ==
    /\ l \in loops
    /\ l.pc \in {"backoff", "delay"}
    /\ IF l.pc = "backoff"
       THEN /\ loops' = (loops \ {l}) \cup {[l EXCEPT !.pc = "delay"]}
            /\ UNCHANGED <<queue, processing, log, pace>>
       ELSE /\ \E r \in Randoms : pace' = RandomDelay(r)
            /\ IF LoopContinues(queue)
               THEN /\ StartNext(l, queue)
                    /\ UNCHANGED processing
               ELSE /\ processing' = FALSE
                    /\ loops' = loops \ {l}
                    /\ UNCHANGED <<queue, log>>
    /\ UNCHANGED <<added, awaiting, promise, resolveCalls, rejectCalls>>

QInit ==
    /\ queue = <<>>
    /\ processing = FALSE
    /\ loops = {}
    /\ added = 0
    /\ awaiting = [t \in Tasks |-> None]
    /\ promise = [t \in Tasks |-> "none"]
    /\ resolveCalls = [t \in Tasks |-> 0]
    /\ rejectCalls = [t \in Tasks |-> 0]
    /\ log = <<>>
    /\ pace = 0

\* The supervisor before main() has run.
Gens == 1..MaxGens

\* The post client has not been started.
DIdle ==
    /\ startpc = "start"
    /\ immediately = FALSE
    /\ lastPost = "absent"
    /\ gens = 0
    /\ posts = [g \in Gens |-> "none"]

TweetIds == 1..MaxTweetId

\* The interaction client has not run.
CIdle ==
    /\ lastChecked = None
    /\ candidates = <<>>
    /\ pos = 1
    /\ startLast = None
    /\ order = <<>>
    /\ clean = TRUE
    /\ scans = 0
    /\ spc = "idle"

\* No loop has computed an interval.
IIdle ==
    interval = [loop |-> "none", min |-> 0, max |-> 0, minutes |-> 0]

\* No request has thrown.
BIdle ==
    /\ failures = 0
    /\ waiting = 0
    /\ slept = 0

\* The two thread builders of a worker: buildConversationThread of utils.ts
\* (search client, simulate) and TwitterInteractionClient's own.
Builders == {"thread", "interaction"}
MNodes == 1..MemNodes

\* No builder is running and the store is empty.
MIdle ==
    /\ mpc = [b \in Builders |-> "idle"]
    /\ mnode = [b \in Builders |-> None]
    /\ mvisits = [b \in Builders |-> 0]
    /\ store = {}
    /\ creates = [n \in MNodes |-> 0]
    /\ landing = {}

Posts == 1..MaxPosts

\* No tweet was generated yet.
WIdle ==
    /\ ppc = [n \in Posts |-> "idle"]
    /\ nposts = 0
    /\ postedOk = {}
    /\ stamped = {}
    /\ remembered = {}

\* processQueue is awaiting no task.
NoTask == [id |-> None, api |-> "none"]

\* A worker that has made no platform call.
PIdle ==
    /\ pending = <<>>
    /\ current = NoTask
    /\ flying = {}
    /\ ncalls = 0
    /\ parent = [t \in 1..MaxCalls |-> None]
    /\ answered = {}
    /\ delivered = [t \in 1..MaxCalls |-> "none"]

\* The scheduling loops of a worker that has not started its clients.
Loops == {"post", "search", "interaction"}

LIdle ==
    /\ lpc = [l \in Loops |-> "off"]
    /\ inflight = [l \in Loops |-> 0]
    /\ runs = [l \in Loops |-> 0]
    /\ stopFlag = FALSE
    /\ afterStop = {}

SIdle ==
    /\ agents = <<>>
    /\ worker = [p \in Pids |-> "unborn"]
    /\ exitCode = [p \in Pids |-> "none"]
    /\ spawned = 0
    /\ signals = {}
    /\ sup = "down"
    /\ reply = NoReply

\* The thread builder before any call of buildConversationThread.
TIdle ==
    /\ tpc = "idle"
    /\ tweet = [id |-> None, parent |-> None]
    /\ maxReplies = 0
    /\ currentTweet = [id |-> None, parent |-> None]
    /\ depth = 0
    /\ thread = <<>>
    /\ visited = {}
    /\ memories = {}
    /\ known = [n \in Nodes |-> Unknown]
    /\ calls = 0
    /\ fetches = 0

Init == QInit /\ TIdle /\ SIdle /\ LIdle /\ PIdle /\ WIdle /\ MIdle /\ BIdle /\ IIdle /\ CIdle /\ DIdle

Next ==
    \/ Add /\ UNCHANGED <<tvars, svars, lvars, pvars, wvars, mvars, bvars, ivars, cvars, dvars>>
    \/ \E t \in Tasks : NestedAdd(t) /\ UNCHANGED <<tvars, svars, lvars, pvars, wvars, mvars, bvars, ivars, cvars, dvars>>
    \/ \E l \in loops : \E o \in {"ok", "fail"} :
          TaskCompletes(l, o) /\ UNCHANGED <<tvars, svars, lvars, pvars, wvars, mvars, bvars, ivars, cvars, dvars>>
    \/ \E l \in loops : TimerFires(l) /\ UNCHANGED <<tvars, svars, lvars, pvars, wvars, mvars, bvars, ivars, cvars, dvars>>

Spec == Init /\ [][Next]_vars

\* Every operation eventually returns or throws, and every timer fires.
FairSpec ==
    /\ Spec
    /\ WF_vars(\E l \in loops : \E o \in {"ok", "fail"} :
                  TaskCompletes(l, o) /\ UNCHANGED <<tvars, svars, lvars, pvars, wvars, mvars, bvars, ivars, cvars, dvars>>)
    /\ WF_vars(\E l \in loops : TimerFires(l) /\ UNCHANGED <<tvars, svars, lvars, pvars, wvars, mvars, bvars, ivars, cvars, dvars>>)

\* -------------------------------------------------- buildConversationThread

NeverVisited(v, id) == FALSE
\* processThread, line 105: visited.has(currentTweet.id).
AlreadyVisited(v, id) == id \in v

NoDepthLimit(d, m) == FALSE
DepthReachedEarly(d, m) == d + 1 >= m
DepthReachedLate(d, m) == d > m + 1
\* processThread, line 59: depth >= maxReplies.
DepthReached(d, m) == d >= m

PushBack(th, tw) == Append(th, tw)
\* processThread, line 111: thread.unshift(currentTweet).
Unshift(th, tw) == <<tw>> \o th

\* processThread, lines 105-150, from the visited test to the await of
\* getTweet: the part that runs once the memory of currentTweet is settled.
Visit ==
    IF AlreadyVisited(visited, currentTweet.id)
    THEN /\ tpc' = "done"
         /\ UNCHANGED <<visited, thread, fetches>>
    ELSE /\ visited' = visited \cup {currentTweet.id}
         /\ thread' = Unshift(thread, currentTweet)
         /\ IF currentTweet.parent # None
            THEN tpc' = "getTweet" /\ fetches' = fetches + 1
            ELSE tpc' = "done" /\ UNCHANGED fetches

\* processThread, lines 46-67: entry, the depth test, the call of
\* getMemoryById. A return here ends the whole recursion (line 135 is the last
\* statement of every caller) and buildConversationThread returns thread.
ProcessThread ==
    /\ tpc = "call"
    /\ tpc' = IF DepthReached(depth, maxReplies) THEN "done" ELSE "getMemory"
    /\ UNCHANGED <<tweet, maxReplies, currentTweet, depth, thread, visited,
                   memories, known, calls, fetches>>

\* getMemoryById resolves (lines 65-68) with a memory or with null. What the
\* store held for this id before the call is an input, revealed here; a
\* memory that this call created or found stays.
GetMemoryReturns(found) ==
    /\ tpc = "getMemory"
    /\ currentTweet.id \in memories => found
    /\ IF found
       THEN memories' = memories \cup {currentTweet.id} /\ Visit
       ELSE /\ tpc' = "ensureConnection"
            /\ UNCHANGED <<memories, visited, thread, fetches>>
    /\ UNCHANGED <<tweet, maxReplies, currentTweet, depth, known, calls>>

\* ensureConnection resolves (lines 74-80); createMemory is called.
EnsureConnectionReturns ==
    /\ tpc = "ensureConnection"
    /\ tpc' = "createMemory"
    /\ UNCHANGED <<tweet, maxReplies, currentTweet, depth, thread, visited,
                   memories, known, calls, fetches>>

\* createMemory resolves (lines 82-102).
CreateMemoryReturns ==
    /\ tpc = "createMemory"
    /\ memories' = memories \cup {currentTweet.id}
    /\ Visit
    /\ UNCHANGED <<tweet, maxReplies, currentTweet, depth, known, calls>>

\* A call of the store rejects: processThread and buildConversationThread
\* reject with it (no try/catch around lines 65-102).
StoreFails ==
    /\ tpc \in {"getMemory", "ensureConnection", "createMemory"}
    /\ tpc' = "failed"
    /\ UNCHANGED <<tweet, maxReplies, currentTweet, depth, thread, visited,
                   memories, known, calls, fetches>>

\* getTweet resolves with the tweet whose id is the parent reference (lines
\* 126-135 and getTweet, part_002 lines 136-163); processThread is called
\* with it at depth + 1. A tweet is immutable: its parent reference is the
\* one returned before, or is first revealed now.
GetTweetReturns(p) ==
    /\ tpc = "getTweet"
    /\ LET ref == currentTweet.parent IN
       /\ known[ref] \in {Unknown, p}
       /\ known' = [known EXCEPT ![ref] = p]
       /\ currentTweet' = [id |-> ref, parent |-> p]
    /\ depth' = depth + 1
    /\ calls' = calls + 1
    /\ tpc' = "call"
    /\ UNCHANGED <<tweet, maxReplies, thread, visited, memories, fetches>>

FetchErrorPropagates == "failed"
\* processThread, lines 142-147: the catch around getTweet logs the error and
\* processThread returns normally.
FetchErrorOutcome == "done"

\* getTweet rejects: caught and logged at lines 142-147, the chain ends.
GetTweetThrows ==
    /\ tpc = "getTweet"
    /\ tpc' = FetchErrorOutcome
    /\ UNCHANGED <<tweet, maxReplies, currentTweet, depth, thread, visited,
                   memories, known, calls, fetches>>

\* buildConversationThread(tweet, client, maxReplies) is called (lines 38-44
\* and 153) with any tweet and any limit.
TInit ==
    /\ tweet \in [id : Nodes, parent : Nodes \cup {None}]
    /\ maxReplies \in 0..MaxDepth
    /\ memories = {}
    /\ currentTweet = tweet
    /\ known = [n \in Nodes |-> IF n = tweet.id THEN tweet.parent ELSE Unknown]
    /\ tpc = "call"
    /\ depth = 0
    /\ thread = <<>>
    /\ visited = {}
    /\ calls = 0
    /\ fetches = 0

TNext ==
    \/ ProcessThread /\ UNCHANGED <<qvars, svars, lvars, pvars, wvars, mvars, bvars, ivars, cvars, dvars>>
    \/ \E found \in BOOLEAN : GetMemoryReturns(found) /\ UNCHANGED <<qvars, svars, lvars, pvars, wvars, mvars, bvars, ivars, cvars, dvars>>
    \/ EnsureConnectionReturns /\ UNCHANGED <<qvars, svars, lvars, pvars, wvars, mvars, bvars, ivars, cvars, dvars>>
    \/ CreateMemoryReturns /\ UNCHANGED <<qvars, svars, lvars, pvars, wvars, mvars, bvars, ivars, cvars, dvars>>
    \/ StoreFails /\ UNCHANGED <<qvars, svars, lvars, pvars, wvars, mvars, bvars, ivars, cvars, dvars>>
    \/ \E p \in Nodes \cup {None} : GetTweetReturns(p) /\ UNCHANGED <<qvars, svars, lvars, pvars, wvars, mvars, bvars, ivars, cvars, dvars>>
    \/ GetTweetThrows /\ UNCHANGED <<qvars, svars, lvars, pvars, wvars, mvars, bvars, ivars, cvars, dvars>>

ThreadInit == QInit /\ TInit /\ SIdle /\ LIdle /\ PIdle /\ WIdle /\ MIdle /\ BIdle /\ IIdle /\ CIdle /\ DIdle

ThreadSpec == ThreadInit /\ [][TNext]_vars

\* Every call of the store and every parent fetch completes.
FairThreadSpec == ThreadSpec /\ WF_vars(TNext)

\* ---------------------------------------------------------------- supervisor

\* The requests StartAgent may receive: each field present (truthy) or not.
\* Without a twitter object there are no credential fields.
StartRequests ==
    {r \in [character : BOOLEAN, twitter : BOOLEAN, username : BOOLEAN,
            token : BOOLEAN, secret : BOOLEAN] :
        ~r.twitter => (~r.username /\ ~r.token /\ ~r.secret)}

SkipsToken(r) == r.character /\ r.twitter /\ r.username /\ r.secret
\* startAgent, lines 133-139, negated.
Valid(r) == r.character /\ r.twitter /\ r.username /\ r.token /\ r.secret

RegisterNothing(reg, p) == reg
RegisterAllRunning(reg, p) == [q \in DOMAIN reg \cup {p} |-> "running"]
\* startAgent, line 189: agents[child.pid] = { process: child, status: "running" }.
Register(reg, p) ==
    [q \in DOMAIN reg \cup {p} |-> IF q = p THEN "running" ELSE reg[q]]

MarkCrashed(reg, p, code) ==
    IF p \in DOMAIN reg
    THEN [reg EXCEPT ![p] = IF code = "0" THEN "stopped" ELSE "crashed"]
    ELSE reg
Forget(reg, p, code) == [q \in DOMAIN reg \ {p} |-> reg[q]]
\* startAgent, lines 160-165: the exit listener.
OnExit(reg, p, code) ==
    IF p \in DOMAIN reg THEN [reg EXCEPT ![p] = "stopped"] ELSE reg

LeaveStatus(reg, p) == reg
\* stopAgent, line 203: agent.status = "stopped".
MarkStopped(reg, p) == [reg EXCEPT ![p] = "stopped"]

\* stopAgent, line 202: agent.process.kill() signals the pid of the worker.
StopSignal(p) == [pid |-> p, group |-> FALSE, by |-> "StopAgent"]
\* startAgent, line 173: process.kill(-child.pid) signals the process group.
ExitSignal(p) == [pid |-> p, group |-> TRUE, by |-> "exit"]

\* The process group of worker p exists: the worker is running or not yet
\* reaped, or it is one of the workers that left a live descendant behind.
GroupExists(p, orphans) == worker[p] \in {"alive", "exited"} \/ p \in orphans

\* startAgent, lines 171-175: the "exit" listeners run in the order they were
\* registered, one per spawned worker, from listener p on. process.kill
\* throws when the group is gone, and the listeners after it do not run.
RECURSIVE ExitListeners(_, _)
ExitListeners(p, orphans) ==
    IF p > spawned \/ ~GroupExists(p, orphans) THEN {}
    ELSE {ExitSignal(p)} \cup ExitListeners(p + 1, orphans)

Ok(o, p, st, r) ==
    [op |-> o, code |-> "OK", pid |-> p, status |-> st, req |-> r]
\* startAgent, lines 140-144: the INVALID_ARGUMENT error.
InvalidArgument(o, r) ==
    [op |-> o, code |-> "INVALID_ARGUMENT", pid |-> None, status |-> "none",
     req |-> r]
ReportsSuccess(o, p) == Ok(o, p, "none", NoReq)
\* stopAgent, lines 206-210, and getAgentStatus, lines 224-228.
NotFound(o, p) ==
    [op |-> o, code |-> "NOT_FOUND", pid |-> p, status |-> "none",
     req |-> NoReq]

\* startAgent (lines 127-192).
StartAgent(r) ==
    /\ sup = "up"
    /\ IF Valid(r)
       THEN /\ spawned < MaxAgents
            /\ spawned' = spawned + 1
            /\ worker' = [worker EXCEPT ![spawned + 1] = "alive"]
            /\ agents' = Register(agents, spawned + 1)
            /\ reply' = Ok("StartAgent", spawned + 1, "none", r)
       ELSE /\ reply' = InvalidArgument("StartAgent", r)
            /\ UNCHANGED <<spawned, worker, agents>>
    /\ UNCHANGED <<exitCode, signals, sup>>

\* stopAgent (lines 194-212).
StopAgent(pid) ==
    /\ sup = "up"
    /\ IF pid \in DOMAIN agents
       THEN /\ signals' = signals \cup {StopSignal(pid)}
            /\ agents' = MarkStopped(agents, pid)
            /\ reply' = Ok("StopAgent", pid, "none", NoReq)
       ELSE /\ reply' = NotFound("StopAgent", pid)
            /\ UNCHANGED <<signals, agents>>
    /\ UNCHANGED <<worker, exitCode, spawned, sup>>

\* getAgentStatus (lines 214-230).
GetAgentStatus(pid) ==
    /\ sup = "up"
    /\ reply' = IF pid \in DOMAIN agents
                THEN Ok("GetAgentStatus", pid, agents[pid], NoReq)
                ELSE NotFound("GetAgentStatus", pid)
    /\ UNCHANGED <<agents, worker, exitCode, spawned, signals, sup>>

\* simulateAgent (lines 40-125): the code given to the callback, "none" when
\* createRuntime or initialize rejects (lines 68-70, outside any try) or
\* runtime.stop rejects on the unknown-action path (line 118, the same).
SimulateCode(character, runtimeOk, action, hasTweet, genOk, stopOk) ==
    IF character \in {"missing", "badjson"} THEN "INVALID_ARGUMENT"
    ELSE IF ~runtimeOk THEN "none"
    ELSE IF action = "TWEET" THEN (IF genOk THEN "OK" ELSE "INTERNAL")
    ELSE IF action = "REPLY"
    THEN (IF ~hasTweet THEN "INVALID_ARGUMENT"
          ELSE IF genOk THEN "OK" ELSE "INTERNAL")
    ELSE IF ~stopOk THEN "none"
    ELSE "INVALID_ARGUMENT"

\* The calls of SimulateAgent, up to the inputs the handler never reads on
\* the path taken.
SimulateCalls ==
    {c \in [character : {"missing", "badjson", "ok"}, runtimeOk : BOOLEAN,
            action : {"TWEET", "REPLY", "OTHER"}, hasTweet : BOOLEAN,
            genOk : BOOLEAN, stopOk : BOOLEAN] :
        /\ (c.character # "ok" \/ ~c.runtimeOk) =>
              (c.action = "OTHER" /\ ~c.hasTweet /\ ~c.genOk)
        /\ c.character # "ok" => c.runtimeOk
        /\ c.action = "OTHER" => (~c.hasTweet /\ ~c.genOk)
        /\ (c.action = "REPLY" /\ ~c.hasTweet) => ~c.genOk
        /\ c.action = "TWEET" => ~c.hasTweet
        /\ (c.character # "ok" \/ ~c.runtimeOk \/ c.action # "OTHER")
              => c.stopOk}

\* The reaped workers whose process group still holds a descendant (spawn with
\* detached: true, line 157, made each worker a group leader).
Orphans == {o \in SUBSET Pids : \A p \in o : worker[p] = "reaped"}

\* simulateAgent (lines 40-125): it builds a runtime of its own and reads or
\* writes nothing of the registry. createRuntime, initialize and, for an
\* unknown action, stop are awaited outside any try (lines 68-70, 118): their
\* rejection rejects the promise of the
\* handler, which nothing awaits, and the unhandled rejection ends the
\* supervisor process (node 20, Dockerfile), whose "exit" listeners (lines
\* 171-175) then run.
SimulateAgent(character, runtimeOk, action, hasTweet, genOk, stopOk) ==
    /\ sup = "up"
    /\ LET code == SimulateCode(character, runtimeOk, action, hasTweet, genOk,
                                stopOk)
       IN /\ reply' = [op |-> "SimulateAgent", code |-> code, pid |-> None,
                       status |-> "none",
                       req |-> [character |-> character,
                                runtimeOk |-> runtimeOk, action |-> action,
                                hasTweet |-> hasTweet, genOk |-> genOk,
                                stopOk |-> stopOk]]
          /\ IF code = "none"
             THEN /\ sup' = "down"
                  /\ \E orphans \in Orphans :
                        signals' = signals \cup ExitListeners(1, orphans)
             ELSE UNCHANGED <<signals, sup>>
    /\ UNCHANGED <<agents, worker, exitCode, spawned>>

\* Worker p ends: on its own with code 0, with code 1 after a fatal startup
\* error (agent, runtime.ts lines 23-26), or killed by a signal sent to it
\* (code null).
WorkerExits(p, code) ==
    /\ worker[p] = "alive"
    /\ code = "null" => \E sg \in signals : sg.pid = p
    /\ worker' = [worker EXCEPT ![p] = "exited"]
    /\ exitCode' = [exitCode EXCEPT ![p] = code]
    /\ reply' = NoReply
    /\ UNCHANGED <<agents, spawned, signals, sup>>

\* The "exit" event of child p is delivered (lines 160-165).
ExitNotification(p) ==
    /\ sup = "up"
    /\ worker[p] = "exited"
    /\ worker' = [worker EXCEPT ![p] = "reaped"]
    /\ agents' = OnExit(agents, p, exitCode[p])
    /\ reply' = NoReply
    /\ UNCHANGED <<exitCode, spawned, signals, sup>>

\* The supervisor process ends: SIGTERM (lines 177-179) or any other exit;
\* the "exit" listeners of lines 171-175 run.
SupervisorTerminates(orphans) ==
    /\ sup = "up"
    /\ sup' = "down"
    /\ signals' = signals \cup ExitListeners(1, orphans)
    /\ reply' = NoReply
    /\ UNCHANGED <<agents, worker, exitCode, spawned>>

\* main() has run (lines 232-255); the registry is empty (line 28).
SInit ==
    /\ agents = <<>>
    /\ worker = [p \in Pids |-> "unborn"]
    /\ exitCode = [p \in Pids |-> "none"]
    /\ spawned = 0
    /\ signals = {}
    /\ sup = "up"
    /\ reply = NoReply

SupInit == QInit /\ TIdle /\ SInit /\ LIdle /\ PIdle /\ WIdle /\ MIdle /\ BIdle /\ IIdle /\ CIdle /\ DIdle

SupNext ==
    \/ \E r \in StartRequests : StartAgent(r) /\ UNCHANGED <<qvars, tvars, lvars, pvars, wvars, mvars, bvars, ivars, cvars, dvars>>
    \/ \E pid \in PidArgs : StopAgent(pid) /\ UNCHANGED <<qvars, tvars, lvars, pvars, wvars, mvars, bvars, ivars, cvars, dvars>>
    \/ \E pid \in PidArgs : GetAgentStatus(pid) /\ UNCHANGED <<qvars, tvars, lvars, pvars, wvars, mvars, bvars, ivars, cvars, dvars>>
    \/ \E c \in SimulateCalls :
          SimulateAgent(c.character, c.runtimeOk, c.action, c.hasTweet,
                        c.genOk, c.stopOk) /\ UNCHANGED <<qvars, tvars, lvars, pvars, wvars, mvars, bvars, ivars, cvars, dvars>>
    \/ \E p \in Pids, c \in {"0", "1", "null"} :
          WorkerExits(p, c) /\ UNCHANGED <<qvars, tvars, lvars, pvars, wvars, mvars, bvars, ivars, cvars, dvars>>
    \/ \E p \in Pids : ExitNotification(p) /\ UNCHANGED <<qvars, tvars, lvars, pvars, wvars, mvars, bvars, ivars, cvars, dvars>>
    \/ \E orphans \in Orphans :
          SupervisorTerminates(orphans) /\ UNCHANGED <<qvars, tvars, lvars, pvars, wvars, mvars, bvars, ivars, cvars, dvars>>

SupSpec == SupInit /\ [][SupNext]_vars

\* --------------------------------------------------------- scheduling loops

\* An invocation of loop l's work begins.
BeginWork(l) ==
    /\ runs[l] < MaxRuns
    /\ runs' = [runs EXCEPT ![l] = @ + 1]
    /\ inflight' = [inflight EXCEPT ![l] = @ + 1]
    /\ afterStop' = IF stopFlag THEN afterStop \cup {l} ELSE afterStop

\* generateNewTweetLoop (post.ts 104-126): the await of cacheManager.get
\* (lines 105-107) is outside any try, so its rejection rejects the loop's
\* promise before setTimeout (line 121) is reached.
ReadFailureOutcome == "dead"

\* setTimeout(() => generateNewTweetLoop(), delay) fires (post.ts 121-123).
PostTimerFires ==
    /\ lpc["post"] = "timer"
    /\ lpc' = [lpc EXCEPT !["post"] = "read"]
    /\ UNCHANGED <<inflight, runs, stopFlag, afterStop>>

\* generateNewTweetLoop up to line 119: the read of the last post's time,
\* then generateNewTweet if the post is due, else straight to setTimeout.
PostRead(ok, due) ==
    /\ lpc["post"] = "read"
    /\ IF ~ok
       THEN /\ lpc' = [lpc EXCEPT !["post"] = ReadFailureOutcome]
            /\ UNCHANGED <<inflight, runs, afterStop>>
       ELSE IF due
       THEN /\ BeginWork("post")
            /\ lpc' = [lpc EXCEPT !["post"] = "work"]
       ELSE /\ lpc' = [lpc EXCEPT !["post"] = "timer"]
            /\ UNCHANGED <<inflight, runs, afterStop>>
    /\ UNCHANGED stopFlag

\* generateNewTweet returns (post.ts 303-426: every failure is caught inside
\* it), then setTimeout (lines 121-123).
GenerateNewTweetDone ==
    /\ lpc["post"] = "work"
    /\ lpc' = [lpc EXCEPT !["post"] = "timer"]
    /\ inflight' = [inflight EXCEPT !["post"] = @ - 1]
    /\ UNCHANGED <<runs, stopFlag, afterStop>>

\* The timer of handleTwitterInteractionsLoop fires (interactions.ts 43-50):
\* handleTwitterInteractions begins.
InteractionTimerFires ==
    /\ lpc["interaction"] = "timer"
    /\ BeginWork("interaction")
    /\ lpc' = [lpc EXCEPT !["interaction"] = "work"]
    /\ UNCHANGED stopFlag

\* handleTwitterInteractions returns (interactions.ts 57-245: every failure
\* is caught inside it) and the loop function is called again (line 46),
\* which sets the next timer.
HandleTwitterInteractionsDone ==
    /\ lpc["interaction"] = "work"
    /\ lpc' = [lpc EXCEPT !["interaction"] = "timer"]
    /\ inflight' = [inflight EXCEPT !["interaction"] = @ - 1]
    /\ UNCHANGED <<runs, stopFlag, afterStop>>

\* engageWithSearchTermsLoop (utils.ts 417-427), called by its own timer:
\* engageWithSearchTerms is started and not awaited (line 418), and the next
\* timer is set at once (lines 423-426).
EngageWithSearchTermsLoop ==
    /\ lpc["search"] = "timer"
    /\ BeginWork("search")
    /\ UNCHANGED <<lpc, stopFlag>>

\* An invocation of engageWithSearchTerms returns (utils.ts 429-674: every
\* failure is caught inside it).
EngageWithSearchTermsDone ==
    /\ inflight["search"] > 0
    /\ inflight' = [inflight EXCEPT !["search"] = @ - 1]
    /\ UNCHANGED <<lpc, runs, stopFlag, afterStop>>

\* TwitterPostClient.stop (post.ts 922-924) sets stopProcessingActions;
\* TwitterClientInterface.stop (index.ts 50-52) only logs.
Stop ==
    /\ ~stopFlag
    /\ stopFlag' = TRUE
    /\ UNCHANGED <<lpc, inflight, runs, afterStop>>

\* TwitterClientInterface.start (index.ts 33-49) has returned: the post loop
\* is in its first call (post.ts 160), the search loop has started its first
\* search and set its timer (utils.ts 413-415), the interaction loop has set
\* its first timer (interactions.ts 54).
LInit ==
    /\ lpc = [l \in Loops |-> IF l = "post" THEN "read" ELSE "timer"]
    /\ inflight = [l \in Loops |-> IF l = "search" THEN 1 ELSE 0]
    /\ runs = [l \in Loops |-> IF l = "search" THEN 1 ELSE 0]
    /\ stopFlag = FALSE
    /\ afterStop = {}

LoopInit == QInit /\ TIdle /\ SIdle /\ LInit /\ PIdle /\ WIdle /\ MIdle /\ BIdle /\ IIdle /\ CIdle /\ DIdle

LoopNext ==
    \/ PostTimerFires /\ UNCHANGED <<qvars, tvars, svars, pvars, wvars, mvars, bvars, ivars, cvars, dvars>>
    \/ \E ok, due \in BOOLEAN : PostRead(ok, due) /\ UNCHANGED <<qvars, tvars, svars, pvars, wvars, mvars, bvars, ivars, cvars, dvars>>
    \/ GenerateNewTweetDone /\ UNCHANGED <<qvars, tvars, svars, pvars, wvars, mvars, bvars, ivars, cvars, dvars>>
    \/ InteractionTimerFires /\ UNCHANGED <<qvars, tvars, svars, pvars, wvars, mvars, bvars, ivars, cvars, dvars>>
    \/ HandleTwitterInteractionsDone /\ UNCHANGED <<qvars, tvars, svars, pvars, wvars, mvars, bvars, ivars, cvars, dvars>>
    \/ EngageWithSearchTermsLoop /\ UNCHANGED <<qvars, tvars, svars, pvars, wvars, mvars, bvars, ivars, cvars, dvars>>
    \/ EngageWithSearchTermsDone /\ UNCHANGED <<qvars, tvars, svars, pvars, wvars, mvars, bvars, ivars, cvars, dvars>>
    \/ Stop /\ UNCHANGED <<qvars, tvars, svars, pvars, wvars, mvars, bvars, ivars, cvars, dvars>>

LoopSpec == LoopInit /\ [][LoopNext]_vars

\* ----------------------------------------------------------- platform access

\* The platform calls made inside a requestQueue.add task: getTweet
\* (part_002 143-151), fetchUser (790-793), the profile fetch (767-769), the
\* posts (post.ts 226-231, 254-259, 712-716; utils.ts 210-224).
QueuedApis == {"singleTweet", "user", "userByUsername", "tweet"}

\* The platform calls made with no queue task around them: fetchOwnPosts
\* (part_002 251), fetchHomeTimeline (274), fetchTimelineForActions (341),
\* handleTwitterInteractions (interactions.ts 92), the thread builder of the
\* interaction client (interactions.ts 457), processTweetActions (post.ts
\* 543, 587, 607).
DirectApis == {"userTimeline", "homeTimeline", "search", "user", "like",
               "retweet"}

\* The call a task's operation makes: the task of fetchSearchTweets runs
\* searchTweets, whose first statement is the search (part_002 375-380).
CallOf(api) == IF api = "race" THEN "search" ELSE api

\* requestQueue.add (part_002 36-48) with an operation that makes one
\* platform call; fetchSearchTweets (part_002 362-409) adds the race of
\* searchTweets against its timeout.
AddCall(api) ==
    /\ ncalls < MaxCalls
    /\ ncalls' = ncalls + 1
    /\ pending' = Append(pending, [id |-> ncalls + 1, api |-> api])
    /\ UNCHANGED <<current, flying, parent, answered, delivered>>

\* A client method calls this.twitterClient.v2 directly.
DirectCall(api) ==
    /\ ncalls < MaxCalls
    /\ ncalls' = ncalls + 1
    /\ flying' = flying \cup {[id |-> ncalls + 1, api |-> api, task |-> None]}
    /\ UNCHANGED <<pending, current, parent, answered, delivered>>

\* processQueue shifts the next task and awaits it (part_002 55-59): the
\* operation makes its platform call.
StartTask ==
    /\ current = NoTask
    /\ pending # <<>>
    /\ current' = Head(pending)
    /\ pending' = Tail(pending)
    /\ flying' = flying \cup {[id |-> Head(pending).id,
                                api |-> CallOf(Head(pending).api),
                                task |-> Head(pending).id]}
    /\ UNCHANGED <<ncalls, parent, answered, delivered>>

\* Promise.race of part_002 396-398 settles with the first of its promises
\* to settle: a result already returned stays.
RaceSettles(result, with) == IF result = "none" THEN with ELSE result

\* searchTweets goes on after its search returned (part_002 382-390): for
\* each tweet found it awaits fetchUser, which adds a task to the queue.
SearchContinues(task, found) ==
    IF found
    THEN /\ ncalls' = ncalls + 1
         /\ pending' = Append(pending, [id |-> ncalls + 1, api |-> "user"])
         /\ parent' = [parent EXCEPT ![ncalls + 1] = task]
         /\ answered' = answered \cup {task}
         /\ UNCHANGED delivered
    ELSE /\ delivered' = [delivered EXCEPT ![task] = RaceSettles(@, "empty")]
         /\ UNCHANGED <<pending, ncalls, parent, answered>>

\* A platform call returns or fails. If it is the call of the task being
\* awaited, the task settles (part_002 38-45), except that searchTweets goes
\* on and, with tweets found, waits for the task it added behind its own.
\* The user lookup of a searchTweets returns to it, and searchTweets returns
\* the tweets to its race (part_002 384-392).
CallReturns(c, found) ==
    /\ c \in flying
    /\ flying' = flying \ {c}
    /\ IF c.task = None
       THEN UNCHANGED <<pending, current, ncalls, parent, answered, delivered>>
       ELSE IF c.api = "search"
       THEN /\ SearchContinues(c.task, found /\ ncalls < MaxCalls)
            /\ current' = IF c.task = current.id /\ ~(found /\ ncalls < MaxCalls)
                          THEN NoTask ELSE current
       ELSE /\ current' = NoTask
            /\ delivered' = IF parent[c.task] = None THEN delivered
                            ELSE [delivered EXCEPT ![parent[c.task]] =
                                      RaceSettles(@, "tweets")]
            /\ UNCHANGED <<pending, ncalls, parent, answered>>

\* The timeout of fetchSearchTweets (part_002 371-373, set when
\* fetchSearchTweets was called) resolves the race with []: the task
\* settles, whatever searchTweets is doing, and fetchSearchTweets returns
\* the empty list (line 400).
TimeoutFires ==
    /\ current.api = "race"
    /\ delivered' = [delivered EXCEPT ![current.id] = RaceSettles(@, "empty")]
    /\ current' = NoTask
    /\ UNCHANGED <<pending, flying, ncalls, parent, answered>>

AccessInit == QInit /\ TIdle /\ SIdle /\ LIdle /\ PIdle /\ WIdle /\ MIdle /\ BIdle /\ IIdle /\ CIdle /\ DIdle

AccessNext ==
    \/ \E api \in QueuedApis \cup {"race"} :
          AddCall(api) /\ UNCHANGED <<qvars, tvars, svars, lvars, wvars, mvars, bvars, ivars, cvars, dvars>>
    \/ \E api \in DirectApis :
          DirectCall(api) /\ UNCHANGED <<qvars, tvars, svars, lvars, wvars, mvars, bvars, ivars, cvars, dvars>>
    \/ StartTask /\ UNCHANGED <<qvars, tvars, svars, lvars, wvars, mvars, bvars, ivars, cvars, dvars>>
    \/ \E c \in flying, found \in BOOLEAN :
          CallReturns(c, found) /\ UNCHANGED <<qvars, tvars, svars, lvars, wvars, mvars, bvars, ivars, cvars, dvars>>
    \/ TimeoutFires /\ UNCHANGED <<qvars, tvars, svars, lvars, wvars, mvars, bvars, ivars, cvars, dvars>>

AccessSpec == AccessInit /\ [][AccessNext]_vars

\* ------------------------------------------------------------------ postTweet

\* generateNewTweet calls postTweet and does not await it (post.ts 408-415):
\* postTweet runs up to its queued platform call (lines 281-285).
PostTweet ==
    /\ nposts < MaxPosts
    /\ nposts' = nposts + 1
    /\ ppc' = [ppc EXCEPT ![nposts + 1] = "post"]
    /\ UNCHANGED <<postedOk, stamped, remembered>>

PostFailureIgnored(ok) == "getTweet"
\* postTweet, lines 276-298: a rejected post call is rethrown by
\* sendStandardTweet (262-264) or handleNoteTweet (243-245) and caught at
\* 295-297, after which postTweet returns.
AfterPostCall(ok) == IF ok THEN "getTweet" ELSE "done"

\* The queued v2.tweet call of post n settles (post.ts 226-231, 254-259).
PostCallSettles(n, ok) ==
    /\ ppc[n] = "post"
    /\ ppc' = [ppc EXCEPT ![n] = AfterPostCall(ok)]
    /\ postedOk' = IF ok THEN postedOk \cup {n} ELSE postedOk
    /\ UNCHANGED <<nposts, stamped, remembered>>

\* this.client.getTweet(result.id) settles (post.ts 287); its failure is
\* caught at 295-297.
PostedTweetFetched(n, ok) ==
    /\ ppc[n] = "getTweet"
    /\ ppc' = [ppc EXCEPT ![n] = IF ok THEN "setLastPost" ELSE "done"]
    /\ UNCHANGED <<nposts, postedOk, stamped, remembered>>

\* processAndCacheTweet, lines 185-191: cacheManager.set of lastPost.
LastPostSet(n, ok) ==
    /\ ppc[n] = "setLastPost"
    /\ ppc' = [ppc EXCEPT ![n] = IF ok THEN "rooms" ELSE "done"]
    /\ stamped' = IF ok THEN stamped \cup {n} ELSE stamped
    /\ UNCHANGED <<nposts, postedOk, remembered>>

\* processAndCacheTweet, lines 194-201: cacheTweet, ensureRoomExists and
\* ensureParticipantInRoom.
RoomEnsured(n, ok) ==
    /\ ppc[n] = "rooms"
    /\ ppc' = [ppc EXCEPT ![n] = IF ok THEN "createMemory" ELSE "done"]
    /\ UNCHANGED <<nposts, postedOk, stamped, remembered>>

\* processAndCacheTweet, lines 204-216: messageManager.createMemory.
PostMemoryCreated(n) ==
    /\ ppc[n] = "createMemory"
    /\ ppc' = [ppc EXCEPT ![n] = "done"]
    /\ remembered' = remembered \cup {n}
    /\ UNCHANGED <<nposts, postedOk, stamped>>

PostInit == QInit /\ TIdle /\ SIdle /\ LIdle /\ PIdle /\ WIdle /\ MIdle /\ BIdle /\ IIdle /\ CIdle /\ DIdle

PostNext ==
    \/ PostTweet /\ UNCHANGED <<qvars, tvars, svars, lvars, pvars, mvars, bvars, ivars, cvars, dvars>>
    \/ \E n \in Posts, ok \in BOOLEAN :
          PostCallSettles(n, ok) /\ UNCHANGED <<qvars, tvars, svars, lvars, pvars, mvars, bvars, ivars, cvars, dvars>>
    \/ \E n \in Posts, ok \in BOOLEAN :
          PostedTweetFetched(n, ok) /\ UNCHANGED <<qvars, tvars, svars, lvars, pvars, mvars, bvars, ivars, cvars, dvars>>
    \/ \E n \in Posts, ok \in BOOLEAN :
          LastPostSet(n, ok) /\ UNCHANGED <<qvars, tvars, svars, lvars, pvars, mvars, bvars, ivars, cvars, dvars>>
    \/ \E n \in Posts, ok \in BOOLEAN :
          RoomEnsured(n, ok) /\ UNCHANGED <<qvars, tvars, svars, lvars, pvars, mvars, bvars, ivars, cvars, dvars>>
    \/ \E n \in Posts :
          PostMemoryCreated(n) /\ UNCHANGED <<qvars, tvars, svars, lvars, pvars, mvars, bvars, ivars, cvars, dvars>>

PostSpec == PostInit /\ [][PostNext]_vars

\* -------------------------------------------------------------- memory writes

\* processThread of builder b is called for tweet n (utils.ts 46, 135;
\* interactions.ts 428, the recursive call on the parent): a leaf, a parent,
\* or a tweet reached again through a cycle.
ReachNode(b, n) ==
    /\ mpc[b] = "idle"
    /\ mvisits[b] < MaxVisits
    /\ mvisits' = [mvisits EXCEPT ![b] = @ + 1]
    /\ mnode' = [mnode EXCEPT ![b] = n]
    /\ mpc' = [mpc EXCEPT ![b] = "getMemoryById"]
    /\ UNCHANGED <<store, creates, landing>>

\* getMemoryById returns (utils.ts 65-68, interactions.ts 448-451): with a
\* memory the write is skipped, without one the builder goes on to
\* ensureConnection.
MemoryLookup(b) ==
    /\ mpc[b] = "getMemoryById"
    /\ mpc' = [mpc EXCEPT ![b] = IF mnode[b] \in store THEN "idle"
                                 ELSE "ensureConnection"]
    /\ UNCHANGED <<mnode, mvisits, store, creates, landing>>

\* ensureConnection returns (utils.ts 74-80; interactions.ts 456-465, after
\* the user fetch).
ConnectionEnsured(b) ==
    /\ mpc[b] = "ensureConnection"
    /\ mpc' = [mpc EXCEPT ![b] = "createMemory"]
    /\ UNCHANGED <<mnode, mvisits, store, creates, landing>>

\* createMemory is called: awaited in utils.ts (line 82), not awaited in
\* interactions.ts (line 467), where processThread goes on at once.
CreateMemoryCalled(b) ==
    /\ mpc[b] = "createMemory"
    /\ creates' = [creates EXCEPT ![mnode[b]] = @ + 1]
    /\ landing' = landing \cup {[by |-> b, node |-> mnode[b]]}
    /\ mpc' = [mpc EXCEPT ![b] = IF b = "thread" THEN "awaitCreate"
                                 ELSE "idle"]
    /\ UNCHANGED <<mnode, mvisits, store>>

\* The store has written the record of a createMemory call.
MemoryWritten(w) ==
    /\ w \in landing
    /\ landing' = landing \ {w}
    /\ store' = store \cup {w.node}
    /\ mpc' = IF mpc[w.by] = "awaitCreate"
              THEN [mpc EXCEPT ![w.by] = "idle"] ELSE mpc
    /\ UNCHANGED <<mnode, mvisits, creates>>

MemInit == QInit /\ TIdle /\ SIdle /\ LIdle /\ PIdle /\ WIdle /\ MIdle /\ BIdle /\ IIdle /\ CIdle /\ DIdle

MemNext ==
    \/ \E b \in Builders, n \in MNodes :
          ReachNode(b, n) /\ UNCHANGED <<qvars, tvars, svars, lvars, pvars, wvars, bvars, ivars, cvars, dvars>>
    \/ \E b \in Builders :
          MemoryLookup(b) /\ UNCHANGED <<qvars, tvars, svars, lvars, pvars, wvars, bvars, ivars, cvars, dvars>>
    \/ \E b \in Builders :
          ConnectionEnsured(b) /\ UNCHANGED <<qvars, tvars, svars, lvars, pvars, wvars, bvars, ivars, cvars, dvars>>
    \/ \E b \in Builders :
          CreateMemoryCalled(b) /\ UNCHANGED <<qvars, tvars, svars, lvars, pvars, wvars, bvars, ivars, cvars, dvars>>
    \/ \E w \in landing :
          MemoryWritten(w) /\ UNCHANGED <<qvars, tvars, svars, lvars, pvars, wvars, bvars, ivars, cvars, dvars>>

MemSpec == MemInit /\ [][MemNext]_vars

\* ------------------------------------------------- processQueue's catch block

\* exponentialBackoff (part_002 71-74): Math.pow(2, retryCount) * 1000 ms,
\* in seconds.
ExponentialBackoff(retryCount) == 2 ^ retryCount

\* add (part_002 38) while the request at the head is being attempted.
OtherRequestAdded ==
    /\ waiting < MaxTasks
    /\ waiting' = waiting + 1
    /\ UNCHANGED <<failures, slept>>

\* The catch block of processQueue, entered with the request that threw
\* (part_002 60-64): the request is put back at the head, and
\* exponentialBackoff is called with this.queue.length.
RequestThrows ==
    /\ failures < MaxFailures
    /\ failures' = failures + 1
    /\ slept' = ExponentialBackoff(waiting + 1)
    /\ UNCHANGED waiting

\* The request at the head returns (part_002 59, 65): the loop goes on to
\* the next request, which has not failed yet.
RequestReturns ==
    /\ waiting > 0
    /\ waiting' = waiting - 1
    /\ failures' = 0
    /\ slept' = 0

BackoffInit == QInit /\ TIdle /\ SIdle /\ LIdle /\ PIdle /\ WIdle /\ MIdle /\ BIdle /\ IIdle /\ CIdle /\ DIdle

BackoffNext ==
    \/ OtherRequestAdded /\ UNCHANGED <<qvars, tvars, svars, lvars, pvars, wvars, mvars, ivars, cvars, dvars>>
    \/ RequestThrows /\ UNCHANGED <<qvars, tvars, svars, lvars, pvars, wvars, mvars, ivars, cvars, dvars>>
    \/ RequestReturns /\ UNCHANGED <<qvars, tvars, svars, lvars, pvars, wvars, mvars, ivars, cvars, dvars>>

BackoffSpec == BackoffInit /\ [][BackoffNext]_vars

\* -------------------------------------------------------------- loop intervals

OffsetTwice(r, min, max) == (r * (max + 1)) \div RandomGrain + min
\* post.ts 112-114, interactions.ts 39-41, utils.ts 419:
\* Math.floor(Math.random() * (max - min + 1)) + min.
RandomMinutes(r, min, max) == (r * (max - min + 1)) \div RandomGrain + min

\* The bounds a persona configures in promptConfig.POST, with min <= max, and
\* the defaults that apply without them: 90..180 for the post loop (post.ts
\* 110), 5..10 for the interaction loop (interactions.ts 37).
Configured(dmin, dmax) ==
    {b \in [min : 1..MaxMinutes, max : 1..MaxMinutes] : b.min <= b.max}
        \cup {[min |-> dmin, max |-> dmax]}

\* generateNewTweetLoop computes its delay (post.ts 110-115).
PostInterval(b, r) ==
    interval' = [loop |-> "post", min |-> b.min, max |-> b.max,
                 minutes |-> RandomMinutes(r, b.min, b.max)]

\* handleTwitterInteractionsLoop computes its delay (interactions.ts 37-42).
InteractionInterval(b, r) ==
    interval' = [loop |-> "interaction", min |-> b.min, max |-> b.max,
                 minutes |-> RandomMinutes(r, b.min, b.max)]

\* engageWithSearchTermsLoop computes its delay (utils.ts 419): 60..120.
SearchInterval(r) ==
    interval' = [loop |-> "search", min |-> 60, max |-> 120,
                 minutes |-> RandomMinutes(r, 60, 120)]

IntervalInit == QInit /\ TIdle /\ SIdle /\ LIdle /\ PIdle /\ WIdle /\ MIdle /\ BIdle /\ IIdle /\ CIdle /\ DIdle

IntervalNext ==
    \/ \E b \in Configured(90, 180), r \in Randoms :
          PostInterval(b, r) /\ UNCHANGED <<qvars, tvars, svars, lvars, pvars, wvars, mvars, bvars, cvars, dvars>>
    \/ \E b \in Configured(5, 10), r \in Randoms :
          InteractionInterval(b, r) /\ UNCHANGED <<qvars, tvars, svars, lvars, pvars, wvars, mvars, bvars, cvars, dvars>>
    \/ \E r \in Randoms :
          SearchInterval(r) /\ UNCHANGED <<qvars, tvars, svars, lvars, pvars, wvars, mvars, bvars, cvars, dvars>>

IntervalSpec == IntervalInit /\ [][IntervalNext]_vars

\* ------------------------------------------------------ interaction scan

\* The decimal string of a tweet id, as its sequence of digits.
RECURSIVE Digits(_)
Digits(n) == IF n < 10 THEN <<n>> ELSE Append(Digits(n \div 10), n % 10)

\* a.localeCompare(b) < 0 for strings of digits: the strings are compared
\* character by character, a proper prefix first.
LocaleLess(a, b) ==
    LET x == Digits(a)
        y == Digits(b)
    IN  \E i \in 1..Len(y) :
            /\ i <= Len(x) + 1
            /\ \A j \in 1..(i - 1) : x[j] = y[j]
            /\ (i = Len(x) + 1 \/ x[i] < y[i])

\* uniqueTweetCandidates.sort(...) (interactions.ts 170-172).
RECURSIVE SortCandidates(_)
SortCandidates(ids) ==
    IF ids = {} THEN <<>>
    ELSE LET first == CHOOSE a \in ids :
                          \A b \in ids \ {a} : LocaleLess(a, b)
         IN  <<first>> \o SortCandidates(ids \ {first})

SkipsNothing(id, last) == TRUE
\* The test of lines 176-179: !lastCheckedTweetId || BigInt(id) > it.
Unprocessed(id, last) == last = None \/ id > last

\* The candidate sets one run can fetch (lines 63-167).
CandidateSets == {c \in SUBSET TweetIds : Cardinality(c) <= MaxCandidates}

\* ClientBase.init has loaded lastCheckedTweetId from the cache (part_002
\* 697-705), with any value or none.
CInit ==
    /\ lastChecked \in TweetIds \cup {None}
    /\ candidates = <<>>
    /\ pos = 1
    /\ startLast = None
    /\ order = <<>>
    /\ clean = TRUE
    /\ scans = 0
    /\ spc = "idle"

\* handleTwitterInteractions up to the for loop (lines 57-173): the
\* candidates are fetched and sorted.
StartScan(c) ==
    /\ spc \in {"idle", "done"}
    /\ scans < MaxScans
    /\ scans' = scans + 1
    /\ candidates' = SortCandidates(c)
    /\ pos' = 1
    /\ startLast' = lastChecked
    /\ order' = <<>>
    /\ clean' = TRUE
    /\ spc' = "scan"
    /\ UNCHANGED lastChecked

\* One turn of the for loop (lines 175-236). An unprocessed tweet has a
\* response already and is skipped (186-189), or is handled and becomes
\* lastCheckedTweetId (234), or a call throws and the catch of line 242 ends
\* the run.
ScanTweet(outcome) ==
    /\ spc = "scan"
    /\ pos <= Len(candidates)
    /\ LET id == candidates[pos] IN
       IF ~Unprocessed(id, lastChecked)
       THEN /\ outcome = "handled"
            /\ pos' = pos + 1
            /\ UNCHANGED <<lastChecked, order, clean, spc>>
       ELSE IF outcome = "handled"
       THEN /\ order' = Append(order, id)
            /\ lastChecked' = id
            /\ pos' = pos + 1
            /\ UNCHANGED <<clean, spc>>
       ELSE IF outcome = "existing"
       THEN /\ clean' = FALSE
            /\ pos' = pos + 1
            /\ UNCHANGED <<lastChecked, order, spc>>
       ELSE /\ clean' = FALSE
            /\ spc' = "done"
            /\ UNCHANGED <<lastChecked, order, pos>>
    /\ UNCHANGED <<candidates, startLast, scans>>

\* The for loop is over: cacheLatestCheckedTweetId (line 239) and return.
FinishScan ==
    /\ spc = "scan"
    /\ pos > Len(candidates)
    /\ spc' = "done"
    /\ UNCHANGED <<lastChecked, candidates, pos, startLast, order, clean, scans>>

ScanInit == QInit /\ TIdle /\ SIdle /\ LIdle /\ PIdle /\ WIdle /\ MIdle /\ BIdle /\ IIdle /\ CInit /\ DIdle

ScanNext ==
    \/ \E c \in CandidateSets :
          StartScan(c) /\ UNCHANGED <<qvars, tvars, svars, lvars, pvars, wvars, mvars, bvars, ivars, dvars>>
    \/ \E o \in {"handled", "existing", "throws"} :
          ScanTweet(o) /\ UNCHANGED <<qvars, tvars, svars, lvars, pvars, wvars, mvars, bvars, ivars, dvars>>
    \/ FinishScan /\ UNCHANGED <<qvars, tvars, svars, lvars, pvars, wvars, mvars, bvars, ivars, dvars>>

ScanSpec == ScanInit /\ [][ScanNext]_vars

\* ------------------------------------------------------- post client start

\* A post that was initiated and whose lastPost record is not written yet:
\* its platform call is queued or in flight, or has succeeded.
Unrecorded == {g \in Gens : posts[g] \in {"submitting", "submitted"}}

\* The worker starts with POST_IMMEDIATELY set or not, and with or without a
\* lastPost record left in the cache by an earlier run.
DInit ==
    /\ startpc = "start"
    /\ immediately \in BOOLEAN
    /\ lastPost \in {"absent", "present"}
    /\ gens = 0
    /\ posts = [g \in Gens |-> "none"]

\* generateNewTweet is called (post.ts 117, 155).
BeginGenerate(from) ==
    /\ gens' = gens + 1
    /\ startpc' = from

\* start, lines 99-162: with POST_IMMEDIATELY generateNewTweet is awaited,
\* else generateNewTweetLoop is called at once.
StartPostClient ==
    /\ startpc = "start"
    /\ IF immediately
       THEN BeginGenerate("immediate")
       ELSE startpc' = "read" /\ UNCHANGED gens
    /\ UNCHANGED <<immediately, lastPost, posts>>

\* What the caller of generateNewTweet does when it returns: start goes on
\* to generateNewTweetLoop (lines 158-160), the loop to setTimeout (121).
AfterGenerate(from) == IF from = "immediate" THEN "read" ELSE "timer"

\* generateNewTweet returns (post.ts 303-426). With content generated it has
\* called postTweet without awaiting it (lines 408-415), and postTweet has run
\* up to its queued platform call; else (dry run, no content, a failure
\* caught at 419) nothing was posted.
GenerateNewTweetReturns(posted) ==
    /\ startpc \in {"immediate", "generate"}
    /\ posts' = IF posted THEN [posts EXCEPT ![gens] = "submitting"] ELSE posts
    /\ startpc' = AfterGenerate(startpc)
    /\ UNCHANGED <<immediately, lastPost, gens>>

\* generateNewTweetLoop, lines 104-119: the read of lastPost, and
\* generateNewTweet when Date.now() > lastPostTimestamp + delay. With no
\* record the timestamp is 0 and the post is due. A rejected read ends the
\* loop.
LoopReadsLastPost(ok, due) ==
    /\ startpc = "read"
    /\ lastPost = "absent" => due
    /\ IF ~ok
       THEN startpc' = "dead" /\ UNCHANGED gens
       ELSE IF due /\ gens < MaxGens
       THEN BeginGenerate("generate")
       ELSE startpc' = "timer" /\ UNCHANGED gens
    /\ UNCHANGED <<immediately, lastPost, posts>>

\* The timer of lines 121-123 fires: generateNewTweetLoop runs again.
LoopTimerFires ==
    /\ startpc = "timer"
    /\ startpc' = "read"
    /\ UNCHANGED <<immediately, lastPost, gens, posts>>

\* The queued platform call of a post settles (post.ts 226-231, 254-259).
TweetSubmitted(g, ok) ==
    /\ posts[g] = "submitting"
    /\ posts' = [posts EXCEPT ![g] = IF ok THEN "submitted" ELSE "failed"]
    /\ UNCHANGED <<startpc, immediately, lastPost, gens>>

\* postTweet goes on after a successful call (post.ts 287-294): getTweet,
\* then processAndCacheTweet writes lastPost (177-191), unless one of them
\* fails (caught at 295-297).
LastPostRecorded(g, ok) ==
    /\ posts[g] = "submitted"
    /\ posts' = [posts EXCEPT ![g] = IF ok THEN "recorded" ELSE "lost"]
    /\ lastPost' = IF ok THEN "present" ELSE lastPost
    /\ UNCHANGED <<startpc, immediately, gens>>

PostStartInit == QInit /\ TIdle /\ SIdle /\ LIdle /\ PIdle /\ WIdle /\ MIdle /\ BIdle /\ IIdle /\ CIdle /\ DInit

PostStartNext ==
    \/ StartPostClient /\ UNCHANGED <<qvars, tvars, svars, lvars, pvars, wvars, mvars, bvars, ivars, cvars>>
    \/ \E posted \in BOOLEAN :
          GenerateNewTweetReturns(posted) /\ UNCHANGED <<qvars, tvars, svars, lvars, pvars, wvars, mvars, bvars, ivars, cvars>>
    \/ \E ok \in BOOLEAN, due \in BOOLEAN :
          LoopReadsLastPost(ok, due) /\ UNCHANGED <<qvars, tvars, svars, lvars, pvars, wvars, mvars, bvars, ivars, cvars>>
    \/ LoopTimerFires /\ UNCHANGED <<qvars, tvars, svars, lvars, pvars, wvars, mvars, bvars, ivars, cvars>>
    \/ \E g \in Gens, ok \in BOOLEAN :
          TweetSubmitted(g, ok) /\ UNCHANGED <<qvars, tvars, svars, lvars, pvars, wvars, mvars, bvars, ivars, cvars>>
    \/ \E g \in Gens, ok \in BOOLEAN :
          LastPostRecorded(g, ok) /\ UNCHANGED <<qvars, tvars, svars, lvars, pvars, wvars, mvars, bvars, ivars, cvars>>

PostStartSpec == PostStartInit /\ [][PostStartNext]_vars

\* ------------------------------------------------- RequestQueue properties

\* The start events, and the attempts (finished executions), in order.
IsStart(e) == e.ev = "start"
IsAttempt(e) == e.ev # "start"
Starts == SelectSeq(log, IsStart)
Attempts == SelectSeq(log, IsAttempt)

\* C1: a task whose operation fails is executed again before anything else
\* (the event after a failure is the start of the same task), and no task
\* starts before every task added before it has succeeded; so A, B, C with B
\* failing twice run as A(ok), B(fail), B(fail), B(ok), C(ok).
RetryAtHead ==
    /\ \A i \in 1..(Len(log) - 1) :
          log[i].ev = "fail" =>
              log[i + 1] = [task |-> log[i].task, ev |-> "start"]
    /\ \A i \in 1..Len(log) :
          log[i].ev = "start" =>
              \A t \in 1..(log[i].task - 1) :
                  \E j \in 1..(i - 1) : log[j] = [task |-> t, ev |-> "ok"]

\* C2: a failure of a task's operation is never delivered to the caller of
\* add(): reject is never called and no promise is rejected.
NeverRejected ==
    \A t \in Tasks : rejectCalls[t] = 0 /\ promise[t] # "rejected"

\* C3: at most one task of the queue is executing and at most one
\* processQueue loop is active, whenever and from wherever add() is called.
SingleFlight ==
    /\ Cardinality(Executing) <= 1
    /\ Cardinality(loops) <= 1

\* add() was called from inside the running task and again from outside
\* while that task was executing.
SingleFlightWitness ==
    /\ \E t \in Executing : awaiting[t] # None
    /\ Len(queue) >= 2

\* C4: every task added is eventually settled, also a task whose operation
\* adds a further task to the same queue and awaits it.
EveryTaskSettles ==
    \A t \in Tasks :
        (promise[t] = "pending") ~> (promise[t] \in {"resolved", "rejected"})

\* C5: the promise of every task is settled at most once (resolve and reject
\* are called at most once between them), and it is resolved exactly when the
\* settling attempt succeeded, rejected exactly when it failed.
SettledOnce ==
    \A t \in Tasks :
        /\ resolveCalls[t] + rejectCalls[t] <= 1
        /\ (promise[t] = "resolved") <=> (resolveCalls[t] = 1)
        /\ (promise[t] = "rejected") <=> (rejectCalls[t] = 1)
        /\ (promise[t] \in {"none", "pending"}) <=>
              (resolveCalls[t] + rejectCalls[t] = 0)

\* One task has been resolved and another rejected.
SettledOnceWitness ==
    \E t, u \in Tasks : promise[t] = "resolved" /\ promise[u] = "rejected"

\* C6: tasks begin execution in the order of their add() calls; a task may
\* start again (a retry) only before any task added after it has started.
FifoStart ==
    \A i, j \in 1..Len(Starts) : i < j => Starts[i].task <= Starts[j].task

\* Three tasks have started, two of them added while another was running or
\* the loop was in its delay, and one attempt has failed.
FifoStartWitness ==
    /\ Len(Starts) >= 3
    /\ \E i \in 1..Len(log) : log[i].ev = "fail"

\* ------------------------------------------------ thread builder properties

\* The ancestor chain of tweet n in the graph revealed so far, leaf first: it
\* ends at a tweet without parent reference, at a tweet already in the chain,
\* or at a tweet the platform has not returned.
RECURSIVE Chain(_, _)
Chain(n, seen) ==
    IF n = None \/ n \in seen \/ known[n] = Unknown
    THEN <<>>
    ELSE <<n>> \o Chain(known[n], seen \cup {n})

RECURSIVE ChainEnd(_, _)
ChainEnd(n, seen) ==
    IF n = None THEN "root"
    ELSE IF n \in seen THEN "cycle"
    ELSE IF known[n] = Unknown THEN "unknown"
    ELSE ChainEnd(known[n], seen \cup {n})

LeafChain == Chain(tweet.id, {})

NoDuplicateIds ==
    \A i, j \in 1..Len(thread) : i # j => thread[i].id # thread[j].id

\* The walk came back to a tweet already in the thread and stopped there.
NoDuplicateIdsWitness ==
    /\ tpc = "done"
    /\ depth < maxReplies
    /\ Len(thread) >= 2
    /\ depth = Len(thread)
    /\ thread[1].parent = currentTweet.id
    /\ \E i \in 1..Len(thread) : thread[i].id = currentTweet.id

\* C9: buildConversationThread terminates (returns or fails), and makes at
\* most maxReplies recursive calls of processThread, on every graph.
Terminates ==
    /\ <>(tpc \in {"done", "failed"})
    /\ [](calls <= maxReplies)

\* The walk was stopped by the depth limit after maxReplies recursive calls.
TerminatesWitness ==
    /\ tpc = "done"
    /\ maxReplies >= 3
    /\ calls = maxReplies
    /\ currentTweet.id \notin visited

\* C10: the returned thread has at most maxReplies + 1 elements.
DepthBound ==
    tpc = "done" => Len(thread) <= maxReplies + 1

\* maxReplies = 2 on a chain that goes on beyond its third tweet.
DepthBoundWitness ==
    /\ tpc = "done"
    /\ maxReplies = 2
    /\ depth = 2
    /\ currentTweet.id \notin visited
    /\ currentTweet.parent \notin visited \cup {None, currentTweet.id}
    /\ Len(thread) = 2

\* C11: when the fetch of a tweet's parent fails, nothing is propagated: the
\* build ends normally with the thread as it was, each element the parent of
\* the next and the leaf last.
Linked(th) == \A i \in 1..(Len(th) - 1) : th[i + 1].parent = th[i].id

FetchFailureEndsChain ==
    [][(tpc = "getTweet" /\ tpc' # "call") =>
          /\ tpc' = "done"
          /\ thread' = thread
          /\ Linked(thread')
          /\ thread'[Len(thread')] = tweet]_vars

\* The fetch of the parent of the second tweet of the chain failed.
FetchFailureWitness ==
    /\ tpc = "done"
    /\ Len(thread) >= 2
    /\ currentTweet = thread[1]
    /\ currentTweet.parent # None
    /\ depth = Len(thread) - 1

\* ----------------------------------------------------- supervisor properties

AllPresent(r) == r.character /\ r.twitter /\ r.username /\ r.token /\ r.secret

ExitMarksStopped ==
    /\ \A p \in Pids :
          worker[p] = "reaped" => (p \in DOMAIN agents /\ agents[p] = "stopped")
    /\ \A p \in DOMAIN agents : agents[p] \in {"running", "stopped"}
    /\ (/\ reply.op = "GetAgentStatus"
        /\ reply.pid \in Pids
        /\ worker[reply.pid] = "reaped")
       => (reply.code = "OK" /\ reply.status = "stopped")

\* A worker ended with exit code 1, was never stopped, and its status was read.
ExitMarksStoppedWitness ==
    \E p \in Pids :
        /\ worker[p] = "reaped"
        /\ exitCode[p] = "1"
        /\ StopSignal(p) \notin signals
        /\ reply.op = "GetAgentStatus"
        /\ reply.pid = p

\* C14: StartAgent without persona, credentials, username, token or secret
\* fails with InvalidArgument, spawns nothing and leaves the registry alone.
StartValidation ==
    [][(reply'.op = "StartAgent" /\ ~AllPresent(reply'.req)) =>
          /\ reply'.code = "INVALID_ARGUMENT"
          /\ UNCHANGED <<agents, worker, spawned, signals>>]_vars

\* Only the token was missing, with one agent already running.
StartValidationWitness ==
    /\ reply.op = "StartAgent"
    /\ reply.code = "INVALID_ARGUMENT"
    /\ reply.req = [character |-> TRUE, twitter |-> TRUE, username |-> TRUE,
                    token |-> FALSE, secret |-> TRUE]
    /\ spawned = 1

StopIsImmediate ==
    [][/\ (reply'.op = "StopAgent" /\ reply'.pid \in DOMAIN agents) =>
             /\ reply'.code = "OK"
             /\ StopSignal(reply'.pid) \in signals'
             /\ agents'[reply'.pid] = "stopped"
             /\ worker' = worker
       /\ \A p \in DOMAIN agents :
             StopSignal(p) \in signals =>
                 (p \in DOMAIN agents' /\ agents'[p] = "stopped")]_vars

\* The status is stopped while the worker process is still alive.
StopIsImmediateWitness ==
    /\ reply.op = "StopAgent"
    /\ reply.code = "OK"
    /\ worker[reply.pid] = "alive"
    /\ agents[reply.pid] = "stopped"

\* C17: once the supervisor has ended, every tracked worker still alive has
\* been sent a signal addressed to its process group.
ShutdownSignalsAll ==
    sup = "down" =>
        \A p \in 1..spawned : worker[p] = "alive" => ExitSignal(p) \in signals

\* C18: every signal StopAgent sends is addressed to the process group of
\* the worker, so that it reaches the worker and its descendants.
StopSignalsGroup ==
    \A sg \in signals : sg.by = "StopAgent" => sg.group

\* C19: no step removes a record from the registry.
RegistryGrows ==
    [][DOMAIN agents \subseteq DOMAIN agents']_vars

\* The status of an agent was read after its exit notification.
RegistryGrowsWitness ==
    \E p \in Pids :
        /\ worker[p] = "reaped"
        /\ reply = Ok("GetAgentStatus", p, "stopped", NoReq)
        /\ spawned = 2

\* C20: GetAgentStatus and SimulateAgent change no record, spawn nothing and
\* signal nothing, whatever their arguments and outcome.
ReadOnlyOps ==
    [][reply'.op \in {"GetAgentStatus", "SimulateAgent"} =>
          UNCHANGED <<agents, worker, exitCode, spawned, signals>>]_vars

\* C21: SimulateAgent answers InvalidArgument for a missing or malformed
\* persona, for REPLY without a tweet id and for an action other than TWEET
\* and REPLY, Internal when generation fails, and the generated text
\* otherwise.
MappedCode(c) ==
    IF c.character \in {"missing", "badjson"} THEN "INVALID_ARGUMENT"
    ELSE IF c.action = "REPLY" /\ ~c.hasTweet THEN "INVALID_ARGUMENT"
    ELSE IF c.action \notin {"TWEET", "REPLY"} THEN "INVALID_ARGUMENT"
    ELSE IF ~c.genOk THEN "INTERNAL"
    ELSE "OK"

SimulateErrorMapping ==
    reply.op = "SimulateAgent" => reply.code = MappedCode(reply.req)

\* ------------------------------------------------ scheduling loop properties

\* C22: for each of the three loops, two invocations of the loop's work are
\* never in progress at the same time.
LoopNonOverlap ==
    \A l \in Loops : inflight[l] <= 1

\* C23: no failure during an iteration stops a loop: every loop always has
\* its work in progress or its next iteration scheduled.
LoopSurvivesFailures ==
    \A l \in Loops : lpc[l] # "dead"

\* C24: once the stop flag is set, no loop starts a further invocation of its
\* work.
StopEndsLoops ==
    afterStop = {}

\* ------------------------------------------------ platform access properties

\* C25: every platform call of a worker is made from inside an executing
\* RequestQueue task.
SoleAccessPath ==
    \A c \in flying : c.task # None

\* C26: at most one platform call started by a queued task is in flight, and
\* it belongs to the task the queue is awaiting: no task is complete while a
\* call it started is outstanding.
NoConcurrentEffects ==
    LET queued == {c \in flying : c.task # None}
    IN  /\ Cardinality(queued) <= 1
        /\ \A c \in queued : c.task = current.id

\* ------------------------------------------------------- postTweet properties

\* C27: the last-post timestamp and the memory record of a post are written
\* only after its queued platform call has succeeded; for a post whose call
\* failed neither is written.
PostEffectsFollowSuccess ==
    /\ stamped \subseteq postedOk
    /\ remembered \subseteq postedOk
    /\ \A n \in Posts : ppc[n] \in {"idle", "post"} =>
          (n \notin stamped /\ n \notin remembered)

\* One post failed and left nothing; a later one succeeded and left both.
PostEffectsWitness ==
    \E m, n \in Posts :
        /\ ppc[m] = "done" /\ m \notin postedOk
        /\ m \notin stamped /\ m \notin remembered
        /\ ppc[n] = "done" /\ n \in postedOk
        /\ n \in stamped /\ n \in remembered

\* ---------------------------------------------------- memory write properties

\* C28: createMemory is called at most once for a tweet id, also when two
\* builders are interleaved on the same tweet and when a tweet is reached
\* twice through a cycle.
MemoryWrittenOnce ==
    \A n \in MNodes : creates[n] <= 1

\* ------------------------------------------------------ thread leaf property

\* C29: for every leaf and every maxReplies >= 0, the thread returned by
\* buildConversationThread is not empty and its last element is the leaf.
LeafIsLast ==
    tpc = "done" => (thread # <<>> /\ thread[Len(thread)] = tweet)

\* ----------------------------------------------------------- backoff property

QueuePacing ==
    /\ [][(/\ Len(log') = Len(log) + 1
           /\ Len(log) > 0
           /\ log'[Len(log')].ev = "start"
           /\ log[Len(log)].ev # "start")
          => (pace' >= 1500 /\ pace' < 3500)]_vars
    /\ [](\A l \in loops : l.pc = "delay" => promise[l.cur] # "pending")

\* A third task started after the shortest delay; the second had failed.
QueuePacingWitness ==
    /\ Len(log) = 5
    /\ log[4].ev = "fail"
    /\ log[5].ev = "start"
    /\ pace = 1500

\* ---------------------------------------------------------- interval property

Handled == {order[i] : i \in 1..Len(order)}

\* C33: the candidates of a run are handled in ascending numerical order of
\* id, so a run in which nothing fails and no tweet has a response yet handles
\* every candidate whose id is greater than lastCheckedTweetId at its start.
ScanHandlesAll ==
    /\ \A i, j \in 1..Len(candidates) :
          i < j => candidates[i] < candidates[j]
    /\ (spc = "done" /\ clean) =>
          \A i \in 1..Len(candidates) :
              (startLast = None \/ candidates[i] > startLast)
                  => candidates[i] \in Handled

\* C39: lastCheckedTweetId never decreases, every assignment of the scan sets
\* it to a strictly greater id, and a tweet that is handled has an id greater
\* than lastCheckedTweetId.
LastCheckedMonotonic ==
    /\ [][lastChecked' >= lastChecked]_vars
    /\ [][Len(order') = Len(order) + 1 =>
             LET id == order'[Len(order')]
             IN  /\ id > lastChecked
                 /\ lastChecked' = id]_vars

\* A run handled a tweet and then passed over a candidate with a smaller id
\* than the one just handled.
LastCheckedWitness ==
    /\ spc = "done"
    /\ Len(order) = 1
    /\ Len(candidates) = 2
    /\ startLast # None
    /\ startLast < order[1]
    /\ lastChecked = order[1]
    /\ \E i \in 1..2 : candidates[i] < lastChecked

\* C35: whenever the pending queue is not empty the processing loop is active,
\* so no task stays pending with no loop running to pick it up.
NoStrandedTasks == Len(queue) > 0 => processing

\* A task was added while the loop was in its pacing delay after a finished
\* task, the last point before the loop can exit.
NoStrandedTasksWitness ==
    /\ Len(queue) > 0
    /\ processing
    /\ \E l \in loops : l.pc = "delay"
    /\ Len(log) > 1

\* C34: a search that the platform answered with tweets, the user lookups
\* succeeding, is returned by fetchSearchTweets as those tweets; the empty list
\* is returned only for a search that failed or was not answered.
SearchDelivered ==
    \A t \in answered : delivered[t] \in {"none", "tweets"}

\* C36: the post loop never begins generating a post while a post initiated
\* earlier is unrecorded; with POST_IMMEDIATELY the startup post and the first
\* loop iteration do not both produce a post.
NoDoublePosting ==
    [][gens' = gens + 1 => Unrecorded = {}]_vars

\* C37: every SimulateAgent call invokes its callback exactly once, with a
\* response or an error, also when the runtime cannot be constructed,
\* initialized or stopped.
SimulateAnswersOnce ==
    reply.op = "SimulateAgent" => reply.code # "none"

\* C38: a registry record whose status is stopped stays stopped under every
\* later operation and exit notification, and a StopAgent repeated on it
\* returns success.
StoppedAbsorbing ==
    [][\A p \in DOMAIN agents :
          agents[p] = "stopped" =>
              /\ p \in DOMAIN agents'
              /\ agents'[p] = "stopped"
              /\ (reply'.op = "StopAgent" /\ reply'.pid = p)
                    => reply'.code = "OK"]_vars

\* StopAgent has returned success for a record that its exit notification
\* had marked stopped, while another worker is registered as running.
StoppedAbsorbingWitness ==
    /\ reply.op = "StopAgent"
    /\ reply.code = "OK"
    /\ worker[reply.pid] = "reaped"
    /\ agents[reply.pid] = "stopped"
    /\ \E q \in DOMAIN agents : q > reply.pid /\ agents[q] = "running"

\* ------------------------------------------------- exact thread length

\* No parent fetch of the build failed: the build did not end at a tweet that
\* is in the thread and whose parent was never returned.
NoFetchFailed ==
    ~(/\ currentTweet.id \in visited
      /\ currentTweet.parent # None
      /\ known[currentTweet.parent] = Unknown)

ShorterOf(a, b) == IF a <= b THEN a ELSE b

\* C40: for an acyclic chain, every parent fetch and every store call
\* succeeding, the build returns exactly min(n, maxReplies) tweets, the leaf
\* and its nearest ancestors root-first, after at most maxReplies parent
\* fetches. The chain fetched is the whole chain, or is longer than maxReplies.
ExactThreadLength ==
    (/\ tpc = "done"
     /\ ChainEnd(tweet.id, {}) # "cycle"
     /\ NoFetchFailed)
    => LET k == ShorterOf(Len(LeafChain), maxReplies)
       IN  /\ Len(thread) = k
           /\ \A i \in 1..k : thread[i].id = LeafChain[k - i + 1]
           /\ fetches <= maxReplies
           /\ ChainEnd(tweet.id, {}) = "unknown" => Len(LeafChain) > maxReplies

\* A chain longer than maxReplies = 2: two fetches, the third tweet fetched
\* and left out.
ExactThreadLengthWitness ==
    /\ tpc = "done"
    /\ maxReplies = 2
    /\ Len(LeafChain) = 3
    /\ ChainEnd(tweet.id, {}) = "unknown"
    /\ fetches = 2
    /\ Len(thread) = 2
    /\ thread[2] = tweet

=============================================================================
